---- MODULE Spec2Model ----
(***************************************************************************)
(* A model of bloomstack_core/hook_events/utils.py: the license            *)
(* validation hooks, the billable cascade over projects, tasks and         *)
(* timesheet details, and the recursive linked-document traversal.         *)
(*                                                                         *)
(* The document store (frappe) is external.  Its tables are modelled as    *)
(* sequences of rows; frappe.get_all is a filter over a table that keeps   *)
(* the table's order; frappe.throw is an outcome "thrown" carrying the     *)
(* message; frappe.msgprint appends to a list of advisory messages.        *)
(* Python's None is the string "None", the empty string is "".             *)
(***************************************************************************)
EXTENDS Integers, Sequences, FiniteSets, TLC

VARIABLES
    licenses,           \* doc.licenses of the party document being validated
    vdl,                \* the call of validate_default_license
    party,              \* the party document frappe.get_doc returns
    compliance_info,    \* table Compliance Info, keyed by license id
    today,              \* getdate(nowdate())
    vel,                \* the call of validate_entity_license
    projects,           \* table Project
    tasks,              \* table Task
    timesheet_details,  \* table Timesheet Detail
    utl,                \* the call of update_timesheet_logs
    linked,             \* get_linked_docs: document -> set of linked documents
    gld                 \* the call of get_linked_documents

vars == <<licenses, vdl, party, compliance_info, today, vel,
          projects, tasks, timesheet_details, utl, linked, gld>>

licenseVars  == <<licenses, vdl>>
entityVars   == <<party, compliance_info, today, vel>>
billableVars == <<projects, tasks, timesheet_details, utl>>
linkVars     == <<linked, gld>>

None == "None"

(***************************************************************************)
(* Bounds of the model.                                                    *)
(***************************************************************************)
MaxLicenseRows == 3     \* rows of doc.licenses in validate_default_license
MaxPartyRows == 2       \* rows of the party loaded by get_default_license
MaxDate == 3            \* dates are the days 1..MaxDate

LicenseIds == {"LIC-1", "LIC-2", "LIC-3"}
PartyLicenseIds == {"LIC-1", "LIC-2"}

\* a row of the child table Compliance License Detail
LicenseRows(ids) == [license : ids, is_default : {0, 1}]

RECURSIVE SeqsUpTo(_, _)
SeqsUpTo(S, n) ==
    IF n = 0 THEN {<<>>}
    ELSE LET shorter == SeqsUpTo(S, n - 1)
         IN shorter \cup {Append(s, x) : s \in {t \in shorter : Len(t) = n - 1}, x \in S}

(***************************************************************************)
(* validate_default_license                                                *)
(***************************************************************************)
NoCall == [state |-> "pending"]

\* line 39: list(set([license.license for license in doc.licenses]))
unique_licenses(rows) == {rows[i].license : i \in DOMAIN rows}

\* line 47, as a find-first slip: at most one default row is ever collected
default_licenses_first_only(rows) ==
    LET all == SelectSeq(rows, LAMBDA r : r.is_default # 0)
    IN IF all = <<>> THEN <<>> ELSE <<all[1]>>

\* line 47: [license for license in doc.licenses if license.is_default]
default_licenses(rows) == SelectSeq(rows, LAMBDA r : r.is_default # 0)

\* line 45 left out: the single row keeps its flag
set_single_default_skipped(rows) == rows

\* line 45: doc.licenses[0].is_default = 1
set_single_default(rows) == [rows EXCEPT ![1].is_default = 1]

\* line 40 comparing the set with itself: duplicates are never seen
has_duplicate_licenses_never(rows) ==
    Cardinality(unique_licenses(rows)) # Cardinality(unique_licenses(rows))

\* line 40: len(doc.licenses) != len(unique_licenses)
has_duplicate_licenses(rows) == Len(rows) # Cardinality(unique_licenses(rows))

Thrown(msg, n, rows) == [thrown |-> msg, found |-> n, licenses |-> rows]
Returned(rows) == [thrown |-> "", found |-> 0, licenses |-> rows]

\* lines 35-52; the result is the exception thrown ("" for none) and the rows
validate_default_license(rows) ==
    IF has_duplicate_licenses(rows)
    THEN Thrown("Please remove duplicate licenses before proceeding", 0, rows)
    ELSE IF Len(rows) = 1
    THEN Returned(set_single_default(rows))
    ELSE IF Len(rows) > 1
    THEN LET defaults == default_licenses(rows)
         IN IF defaults = <<>>
            THEN Thrown("There must be atleast one default license, found none", 0, rows)
            ELSE IF Len(defaults) > 1
            THEN Thrown("There can be only one default license for {0}, found {1}",
                        Len(defaults), rows)
            ELSE Returned(rows)
    ELSE Returned(rows)

InitLicense ==
    /\ licenses \in SeqsUpTo(LicenseRows(LicenseIds), MaxLicenseRows)
    /\ vdl = NoCall

\* the validate hook runs once on the document
ValidateDefaultLicense ==
    /\ vdl.state = "pending"
    /\ LET r == validate_default_license(licenses)
       IN /\ licenses' = r.licenses
          /\ vdl' = [state |-> IF r.thrown = "" THEN "returned" ELSE "thrown",
                     thrown |-> r.thrown,
                     found |-> r.found,
                     before |-> licenses]
    /\ UNCHANGED <<entityVars, billableVars, linkVars>>

(***************************************************************************)
(* get_default_license and validate_entity_license                         *)
(***************************************************************************)
\* a missing license_expiry_date (None) in Compliance Info
NoDate == 0

Dates == 1..MaxDate

Parties == {[doctype |-> "Customer", name |-> "CUST-1"],
            [doctype |-> "Supplier", name |-> "SUPP-1"]}

\* the license_number field of the Compliance Info record of a license
LicenseNumber(l) ==
    CASE l = "LIC-1" -> "C10-0000001-LIC"
      [] l = "LIC-2" -> "C11-0000002-LIC"
      [] OTHER -> "C12-0000003-LIC"

\* line 74: frappe.core.utils.find, as the index of the first default row (0: None)
find_default(rows) ==
    LET hits == {i \in DOMAIN rows : rows[i].is_default # 0}
    IN IF hits = {} THEN 0 ELSE CHOOSE i \in hits : \A j \in hits : i <= j

\* lines 65-79: None without licenses, '' without a default row, else its license
get_default_license(doc) ==
    IF doc.licenses = <<>>
    THEN None
    ELSE LET i == find_default(doc.licenses)
         IN IF i = 0 THEN "" ELSE doc.licenses[i].license

\* line 28 with <= for <: a license expiring today is reported as expired
license_expired_inclusive(expiry, now) == expiry <= now

\* line 28: license_expiry_date < getdate(nowdate())
license_expired(expiry, now) == expiry < now

\* lines 18-32; the result is the value returned and the messages printed
validate_entity_license(doc, info, now) ==
    LET license_record == get_default_license(doc)
    IN IF license_record \in {None, ""}
       THEN [ret |-> None, msgs |-> <<>>]
       ELSE LET license_expiry_date == info[license_record].license_expiry_date
                license_number == info[license_record].license_number
            IN IF license_expiry_date = NoDate
               THEN [ret |-> license_record,
                     msgs |-> <<[msg |-> "We could not verify the status of license number {0}, Proceed with Caution.",
                                 party |-> "", license_number |-> license_number,
                                 date |-> NoDate]>>]
               ELSE IF license_expired(license_expiry_date, now)
               THEN [ret |-> license_record,
                     msgs |-> <<[msg |-> "Our records indicate {0}'s license number {1} has expired on {2}, Proceed with Caution.",
                                 party |-> doc.name, license_number |-> license_number,
                                 date |-> license_expiry_date]>>]
               ELSE [ret |-> license_record, msgs |-> <<>>]

InitEntity ==
    /\ party \in {[doctype |-> p.doctype, name |-> p.name, licenses |-> rows] :
                    p \in Parties,
                    rows \in SeqsUpTo(LicenseRows(PartyLicenseIds), MaxPartyRows)}
    /\ compliance_info \in {[l \in PartyLicenseIds |->
                                [license_expiry_date |-> d[l],
                                 license_number |-> LicenseNumber(l)]] :
                             d \in [PartyLicenseIds -> {NoDate} \cup Dates]}
    /\ today \in Dates
    /\ vel = NoCall

\* validate_entity_license(party.doctype, party.name)
ValidateEntityLicense ==
    /\ vel.state = "pending"
    /\ LET r == validate_entity_license(party, compliance_info, today)
       IN vel' = [state |-> "returned", ret |-> r.ret, msgs |-> r.msgs]
    /\ UNCHANGED <<party, compliance_info, today>>
    /\ UNCHANGED <<licenseVars, billableVars, linkVars>>

(***************************************************************************)
(* update_timesheet_logs and the billable cascade                          *)
(***************************************************************************)
ProjectNames == <<"PROJ-1", "PROJ-2">>
TaskNames == <<"TASK-1", "TASK-2">>
DetailNames == <<"TSD-1", "TSD-2">>
ProjectTypes == {"Internal", "External"}
ProjectTemplates == {"Template A", "Template B"}
RefDoctypes == {"Project", "Task", "Project Type", "Project Template", "Timesheet"}

\* the reference names a caller may pass with each reference doctype
RefNames(ref_dt) ==
    CASE ref_dt = "Project" -> {ProjectNames[i] : i \in DOMAIN ProjectNames}
      [] ref_dt = "Task" -> {TaskNames[i] : i \in DOMAIN TaskNames}
      [] ref_dt = "Project Type" -> ProjectTypes
      [] ref_dt = "Project Template" -> ProjectTemplates
      [] OTHER -> {"TS-1"}

\* frappe.scrub on the reference doctypes: lower case, "_" for " "
scrub(ref_dt) ==
    CASE ref_dt = "Project" -> "project"
      [] ref_dt = "Task" -> "task"
      [] ref_dt = "Project Type" -> "project_type"
      [] ref_dt = "Project Template" -> "project_template"
      [] OTHER -> "timesheet"

\* the filter dropped: every row of the table is returned
get_all_unfiltered(table, field, value) == table

\* frappe.get_all(doctype, filters={field: value}), in the table's order
get_all(table, field, value) == SelectSeq(table, LAMBDA r : r[field] = value)

\* frappe.db.set_value(doctype, name, "billable", billable)
set_value(table, name, billable) ==
    [i \in DOMAIN table |->
        IF table[i].name = name THEN [table[i] EXCEPT !.billable = billable]
        ELSE table[i]]

\* a save that writes the document and then fails
save_write_then_fail(table, name, billable, st, failAt) ==
    [table |-> set_value(table, name, billable),
     saves |-> st.saves + 1,
     raised |-> st.saves + 1 = failAt]

\* doc.billable = billable; doc.save(): the failAt-th save of the call raises
\* and writes nothing, every other save writes the document
save(table, name, billable, st, failAt) ==
    IF st.saves + 1 = failAt
    THEN [table |-> table, saves |-> st.saves + 1, raised |-> TRUE]
    ELSE [table |-> set_value(table, name, billable), saves |-> st.saves + 1,
          raised |-> FALSE]

\* the loop of lines 125-128 from the i-th task on; st is the database so far
RECURSIVE save_tasks(_, _, _, _, _)
save_tasks(st, found, i, billable, failAt) ==
    IF st.raised \/ i > Len(found)
    THEN st
    ELSE LET s == save(st.tasks, found[i].name, billable, st, failAt)
         IN save_tasks([st EXCEPT !.tasks = s.table, !.saves = s.saves,
                                  !.raised = s.raised],
                       found, i + 1, billable, failAt)

\* the loop of lines 125-128 never run
update_linked_tasks_skipped(st, project, billable, failAt) == st

\* lines 122-130
update_linked_tasks(st, project, billable, failAt) ==
    save_tasks(st, get_all(st.tasks, "project", project), 1, billable, failAt)

\* the loop of lines 113-117 from the i-th project on
RECURSIVE save_projects(_, _, _, _, _)
save_projects(st, found, i, billable, failAt) ==
    IF st.raised \/ i > Len(found)
    THEN st
    ELSE LET s == save(st.projects, found[i].name, billable, st, failAt)
             saved == [st EXCEPT !.projects = s.table, !.saves = s.saves,
                                 !.raised = s.raised]
             next == IF saved.raised THEN saved
                     ELSE update_linked_tasks(saved, found[i].name, billable, failAt)
         IN save_projects(next, found, i + 1, billable, failAt)

\* lines 110-119; the projects found are returned in st.found
update_linked_projects(st, ref_field, ref_value, billable, failAt) ==
    LET found == get_all(st.projects, ref_field, ref_value)
    IN [save_projects(st, found, 1, billable, failAt) EXCEPT !.found = found]

\* lines 133-134
get_project_time_logs(details, project) == get_all(details, "project", project.name)

\* lines 102-104: the time logs of each project, flattened
RECURSIVE flatten_time_logs(_, _, _)
flatten_time_logs(details, found, i) ==
    IF i > Len(found) THEN <<>>
    ELSE get_project_time_logs(details, found[i]) \o flatten_time_logs(details, found, i + 1)

\* lines 106-107
RECURSIVE set_billable_on_logs(_, _, _, _)
set_billable_on_logs(details, time_logs, i, billable) ==
    IF i > Len(time_logs) THEN details
    ELSE set_billable_on_logs(set_value(details, time_logs[i].name, billable),
                              time_logs, i + 1, billable)

\* lines 95-107 on the database db; failAt numbers the save that raises (0: none)
update_timesheet_logs(db, ref_dt, ref_dn, billable, failAt) ==
    LET st0 == [projects |-> db.projects, tasks |-> db.tasks,
                timesheet_details |-> db.timesheet_details,
                saves |-> 0, raised |-> FALSE, found |-> <<>>]
    IN IF ref_dt \in {"Project", "Task"}
       THEN LET time_logs == get_all(db.timesheet_details, scrub(ref_dt), ref_dn)
            IN [st0 EXCEPT !.timesheet_details =
                    set_billable_on_logs(db.timesheet_details, time_logs, 1, billable)]
       ELSE IF ref_dt \in {"Project Type", "Project Template"}
       THEN LET st == update_linked_projects(st0, scrub(ref_dt), ref_dn, billable, failAt)
                time_logs == flatten_time_logs(st.timesheet_details, st.found, 1)
            IN IF st.raised THEN st
               ELSE [st EXCEPT !.timesheet_details =
                        set_billable_on_logs(st.timesheet_details, time_logs, 1, billable)]
       ELSE st0

\* the tables before any call; the billable flags of one table start alike
InitBillable ==
    /\ projects \in {[i \in DOMAIN ProjectNames |->
                        [name |-> ProjectNames[i], project_type |-> ty[i],
                         project_template |-> tp[i], billable |-> b0]] :
                      ty \in [DOMAIN ProjectNames -> ProjectTypes],
                      tp \in [DOMAIN ProjectNames -> ProjectTemplates],
                      b0 \in {0, 1}}
    /\ tasks \in {[i \in DOMAIN TaskNames |->
                        [name |-> TaskNames[i], project |-> pr[i], billable |-> b0]] :
                      pr \in [DOMAIN TaskNames -> RefNames("Project")],
                      b0 \in {0, 1}}
    /\ timesheet_details \in
            {[i \in DOMAIN DetailNames |->
                        [name |-> DetailNames[i], project |-> pr[i], task |-> ta[i],
                         billable |-> b0]] :
                      pr \in [DOMAIN DetailNames -> RefNames("Project")],
                      ta \in [DOMAIN DetailNames -> RefNames("Task")],
                      b0 \in {0, 1}}
    /\ utl = NoCall

Database == [projects |-> projects, tasks |-> tasks,
             timesheet_details |-> timesheet_details]

\* update_timesheet_logs(ref_dt, ref_dn, billable), any one save of it failing
UpdateTimesheetLogs ==
    /\ utl.state = "pending"
    /\ \E ref_dt \in RefDoctypes, billable \in {0, 1},
          failAt \in 0..(Len(projects) + Len(tasks)) :
        \E ref_dn \in RefNames(ref_dt) :
            LET r == update_timesheet_logs(Database, ref_dt, ref_dn, billable, failAt)
            IN /\ failAt = 0 \/ r.raised
               /\ projects' = r.projects
               /\ tasks' = r.tasks
               /\ timesheet_details' = r.timesheet_details
               /\ utl' = [state |-> IF r.raised THEN "raised" ELSE "returned",
                          ref_dt |-> ref_dt, ref_dn |-> ref_dn, billable |-> billable,
                          failAt |-> failAt, before |-> Database]
    /\ UNCHANGED <<licenseVars, entityVars, linkVars>>

(***************************************************************************)
(* get_linked_documents                                                    *)
(*                                                                         *)
(* The documents of the store, in the order get_linked_docs yields them    *)
(* (grouped by doctype, as the items of its dict are).  A Project is named *)
(* by its user, and one here bears the name of a Timesheet.  The link      *)
(* graph maps a document's index to the indices of its linked documents.   *)
(***************************************************************************)
MaxLinks == 2           \* linked documents of one document
RecursionLimit == 7     \* nested calls the interpreter allows (sys.getrecursionlimit)

Documents == <<[doctype |-> "Project", name |-> "PROJ-1", docstatus |-> 0],
               [doctype |-> "Project", name |-> "TS-1", docstatus |-> 0],
               [doctype |-> "Task", name |-> "TASK-1", docstatus |-> 0],
               [doctype |-> "Timesheet", name |-> "TS-1", docstatus |-> 1],
               [doctype |-> "Sales Order", name |-> "SO-1", docstatus |-> 1]>>

\* lines 187-192
validate_linked_doc(docinfo) == docinfo.doctype \in {"Project", "Timesheet", "Task"}

\* lines 156-161: the linked documents of document i, in the store's order, each
\* with its doctype
get_linked_docs(graph, i) ==
    LET js == SelectSeq([j \in DOMAIN Documents |-> j], LAMBDA j : j \in graph[i])
    IN [k \in DOMAIN js |-> Documents[js[k]] @@ [index |-> js[k]]]

\* line 168: [doc.get("name") for doc in docs]
names_of(docs) == {docs[k].name : k \in DOMAIN docs}

\* list.sort is stable: x goes behind every entry whose key is not larger
RECURSIVE insert_by_link_count(_, _)
insert_by_link_count(sorted, x) ==
    IF sorted = <<>> \/ sorted[Len(sorted)].link_count <= x.link_count
    THEN Append(sorted, x)
    ELSE Append(insert_by_link_count(SubSeq(sorted, 1, Len(sorted) - 1), x),
                sorted[Len(sorted)])

RECURSIVE sort_prefix(_, _)
sort_prefix(docs, n) ==
    IF n = 0 THEN <<>> ELSE insert_by_link_count(sort_prefix(docs, n - 1), docs[n])

\* line 180 left out
sort_by_link_count_skipped(docs) == docs

\* line 180: docs.sort(key=lambda doc: doc.get("link_count"))
sort_by_link_count(docs) == sort_prefix(docs, Len(docs))

(***************************************************************************)
(* docs is one mutable list shared by reference.  A call that is handed an *)
(* empty list replaces it by a list of its own (line 153: "if not docs"),  *)
(* so what it appends never reaches its caller; a call handed a non-empty  *)
(* list appends to and sorts the caller's list itself.  The result's docs  *)
(* is the final content of the list the call worked on.                    *)
(***************************************************************************)
RECURSIVE get_linked_documents(_, _, _, _)
RECURSIVE visit_links(_, _, _, _, _, _)

\* the loop of lines 159-177 from the i-th link on
visit_links(graph, links, i, docs, link_count, depth) ==
    IF i > Len(links)
    THEN [status |-> "returned", docs |-> docs, count |-> link_count]
    ELSE IF ~validate_linked_doc(links[i])
    THEN visit_links(graph, links, i + 1, docs, link_count, depth)
    ELSE IF links[i].name \in names_of(docs)
    THEN visit_links(graph, links, i + 1, docs, link_count + 1, depth)
    ELSE LET sub == get_linked_documents(graph, links[i].index, docs, depth + 1)
             after == IF docs = <<>> THEN docs ELSE sub.docs
         IN IF sub.status # "returned"
            THEN sub
            ELSE visit_links(graph, links, i + 1,
                             Append(after, [doctype |-> links[i].doctype,
                                            name |-> links[i].name,
                                            docstatus |-> links[i].docstatus,
                                            link_count |-> sub.count]),
                             link_count + 1, depth)

\* lines 138-184 on document i, as the depth-th nested call
get_linked_documents(graph, i, docs, depth) ==
    IF depth > RecursionLimit
    THEN [status |-> "RecursionError", docs |-> docs, count |-> 0]
    ELSE LET own == IF docs = <<>> THEN <<>> ELSE docs
             r == visit_links(graph, get_linked_docs(graph, i), 1, own, 0, depth)
         IN IF r.status # "returned" THEN r
            ELSE [r EXCEPT !.docs = sort_by_link_count(r.docs)]

\* the documents a viewer is opened on
StartDocuments == {i \in DOMAIN Documents : validate_linked_doc(Documents[i])}

\* the sets of documents one document may link to
LinkSets == {s \in SUBSET DOMAIN Documents : Cardinality(s) <= MaxLinks}

\* no document links to itself; only the start documents' links are followed
InitLinks ==
    /\ \E g \in [StartDocuments -> LinkSets] :
        /\ \A i \in StartDocuments : i \notin g[i]
        /\ linked = [i \in DOMAIN Documents |-> IF i \in StartDocuments THEN g[i] ELSE {}]
    /\ gld = NoCall

\* get_linked_documents(doctype, name), called without docs
GetLinkedDocuments ==
    /\ gld.state = "pending"
    /\ \E start \in StartDocuments :
        LET r == get_linked_documents(linked, start, <<>>, 1)
        IN gld' = [state |-> r.status, start |-> start, docs |-> r.docs,
                   count |-> r.count]
    /\ UNCHANGED linked
    /\ UNCHANGED <<licenseVars, entityVars, billableVars>>

(***************************************************************************)
(* Specifications: one per group of operations; the state of the other     *)
(* groups is idle.                                                         *)
(***************************************************************************)
IdleLicense == licenses = <<>> /\ vdl = NoCall
IdleEntity ==
    /\ party = [doctype |-> "Customer", name |-> "CUST-1", licenses |-> <<>>]
    /\ compliance_info = <<>>
    /\ today = 1
    /\ vel = NoCall
IdleBillable ==
    /\ projects = <<>> /\ tasks = <<>> /\ timesheet_details = <<>>
    /\ utl = NoCall
IdleLinks == linked = [i \in DOMAIN Documents |-> {}] /\ gld = NoCall

LicenseInit == InitLicense /\ IdleEntity /\ IdleBillable /\ IdleLinks
EntityInit == IdleLicense /\ InitEntity /\ IdleBillable /\ IdleLinks
BillableInit == IdleLicense /\ IdleEntity /\ InitBillable /\ IdleLinks
LinksInit == IdleLicense /\ IdleEntity /\ IdleBillable /\ InitLinks

SpecLicense == LicenseInit /\ [][ValidateDefaultLicense]_vars
SpecEntity == EntityInit /\ [][ValidateEntityLicense]_vars
SpecBillable == BillableInit /\ [][UpdateTimesheetLogs]_vars
SpecLinks == LinksInit /\ [][GetLinkedDocuments]_vars

(***************************************************************************)
(* Properties of validate_default_license (SpecLicense)                    *)
(***************************************************************************)
PairwiseDistinctIds(rows) ==
    \A i, j \in DOMAIN rows : i # j => rows[i].license # rows[j].license

MarkedDefault(rows) == {i \in DOMAIN rows : rows[i].is_default # 0}

\* C1: with two or more rows of pairwise distinct license ids, the call is
\* rejected when zero or several rows are marked default, and with exactly one
\* marked default it returns and leaves every row as it was.
C1_OneDefaultAmongSeveral ==
    (vdl.state # "pending" /\ Len(vdl.before) >= 2 /\ PairwiseDistinctIds(vdl.before))
        => IF Cardinality(MarkedDefault(vdl.before)) = 1
           THEN vdl.state = "returned" /\ licenses = vdl.before
           ELSE vdl.state = "thrown" /\ licenses = vdl.before

C1_Witness ==
    /\ vdl.state = "thrown"
    /\ Len(vdl.before) = 3
    /\ PairwiseDistinctIds(vdl.before)
    /\ Cardinality(MarkedDefault(vdl.before)) = 2
    /\ vdl.found = 2

\* C2: with exactly one row the call returns and the row is marked default
\* afterwards, whatever its flag was before.
C2_SingleLicenseBecomesDefault ==
    (vdl.state # "pending" /\ Len(vdl.before) = 1)
        => /\ vdl.state = "returned"
           /\ Len(licenses) = 1
           /\ licenses[1].license = vdl.before[1].license
           /\ licenses[1].is_default = 1

C2_Witness ==
    /\ vdl.state = "returned"
    /\ Len(vdl.before) = 1
    /\ vdl.before[1].is_default = 0
    /\ licenses[1].is_default = 1

\* C3: when a license id occurs in two or more rows the call is rejected,
\* whatever the default flags are, and no row's flag is changed.
C3_DuplicatesRejected ==
    (vdl.state # "pending" /\ ~PairwiseDistinctIds(vdl.before))
        => vdl.state = "thrown" /\ licenses = vdl.before

C3_Witness ==
    /\ vdl.state = "thrown"
    /\ ~PairwiseDistinctIds(vdl.before)
    /\ Cardinality(MarkedDefault(vdl.before)) = 1
    /\ vdl.thrown = "Please remove duplicate licenses before proceeding"

(***************************************************************************)
(* Properties of validate_entity_license (SpecEntity)                      *)
(***************************************************************************)
\* C8: the call never rejects; without a default license it returns nothing
\* and warns of nothing; with one it returns that license id, with exactly one
\* warning when the expiry date is missing or before today and none otherwise.
C8_EntityLicenseAdvisory ==
    vel.state # "pending"
        => /\ vel.state = "returned"
           /\ IF MarkedDefault(party.licenses) = {}
              THEN vel.ret = None /\ vel.msgs = <<>>
              ELSE LET first == CHOOSE i \in MarkedDefault(party.licenses) :
                                    \A j \in MarkedDefault(party.licenses) : i <= j
                       expiry == compliance_info[party.licenses[first].license].license_expiry_date
                   IN /\ vel.ret = party.licenses[first].license
                      /\ IF expiry = NoDate \/ expiry < today
                         THEN Len(vel.msgs) = 1 /\ vel.msgs[1].date = expiry
                         ELSE vel.msgs = <<>>

C8_Witness ==
    /\ vel.state = "returned"
    /\ vel.ret \in PartyLicenseIds
    /\ compliance_info[vel.ret].license_expiry_date = today
    /\ vel.msgs = <<>>

(***************************************************************************)
(* Properties of update_timesheet_logs (SpecBillable)                      *)
(***************************************************************************)
WithBillable(row, billable) == [row EXCEPT !.billable = billable]

\* every row of table stands as in old, with billable set where hit holds
OnlyRowsSet(table, old, Hit(_), billable) ==
    /\ Len(table) = Len(old)
    /\ \A i \in DOMAIN old :
        table[i] = IF Hit(old[i]) THEN WithBillable(old[i], billable) ELSE old[i]

\* C6: with ref_dt "Task" (or "Project") the call sets billable on every
\* Timesheet Detail row whose task (or project) is the reference name, and
\* leaves every other Timesheet Detail row and every Project and Task alone.
C6_DirectReferenceSetsOnlyItsLogs ==
    (utl.state # "pending" /\ utl.ref_dt \in {"Task", "Project"})
        => /\ utl.state = "returned"
           /\ OnlyRowsSet(timesheet_details, utl.before.timesheet_details,
                          LAMBDA row : IF utl.ref_dt = "Task"
                                       THEN row.task = utl.ref_dn
                                       ELSE row.project = utl.ref_dn,
                          utl.billable)
           /\ projects = utl.before.projects
           /\ tasks = utl.before.tasks

C6_Witness ==
    /\ utl.state = "returned"
    /\ utl.ref_dt = "Task"
    /\ \E i, j \in DOMAIN timesheet_details :
        /\ utl.before.timesheet_details[i].task = utl.ref_dn
        /\ utl.before.timesheet_details[i].billable # utl.billable
        /\ timesheet_details[i].billable = utl.billable
        /\ utl.before.timesheet_details[j].task # utl.ref_dn
        /\ utl.before.timesheet_details[j].project = utl.before.timesheet_details[i].project
        /\ timesheet_details[j].billable # utl.billable

\* the projects of the type or template named by the call
CascadeProjects ==
    {utl.before.projects[i].name : i \in
        {k \in DOMAIN utl.before.projects :
            IF utl.ref_dt = "Project Type"
            THEN utl.before.projects[k].project_type = utl.ref_dn
            ELSE utl.before.projects[k].project_template = utl.ref_dn}}

\* C7: with ref_dt "Project Type" (or "Project Template") and every save
\* succeeding, every Project of the type, every Task of those Projects and
\* every Timesheet Detail row of those Projects has the given billable on
\* return, and nothing else is changed.
C7_CascadeReachesProjectsTasksLogs ==
    (utl.state = "returned" /\ utl.ref_dt \in {"Project Type", "Project Template"})
        => /\ OnlyRowsSet(projects, utl.before.projects,
                          LAMBDA row : row.name \in CascadeProjects, utl.billable)
           /\ OnlyRowsSet(tasks, utl.before.tasks,
                          LAMBDA row : row.project \in CascadeProjects, utl.billable)
           /\ OnlyRowsSet(timesheet_details, utl.before.timesheet_details,
                          LAMBDA row : row.project \in CascadeProjects, utl.billable)

C7_Witness ==
    /\ utl.state = "returned"
    /\ utl.ref_dt = "Project Type"
    /\ Cardinality(CascadeProjects) = 1
    /\ \E p \in DOMAIN projects : projects[p].billable # utl.billable
    /\ \E p \in DOMAIN projects :
        projects[p].billable = utl.billable /\ utl.before.projects[p].billable # utl.billable
    /\ \E t \in DOMAIN tasks :
        tasks[t].billable = utl.billable /\ utl.before.tasks[t].billable # utl.billable
    /\ \E t \in DOMAIN tasks : tasks[t].billable # utl.billable
    /\ \E d \in DOMAIN timesheet_details :
        /\ timesheet_details[d].billable = utl.billable
        /\ utl.before.timesheet_details[d].billable # utl.billable
    /\ \E d \in DOMAIN timesheet_details : timesheet_details[d].billable # utl.billable

\* the saves of the cascade in the order they are made: each project of the
\* type, followed by its tasks
RECURSIVE CascadeOrder(_)
CascadeOrder(i) ==
    IF i > Len(utl.before.projects) THEN <<>>
    ELSE LET p == utl.before.projects[i]
             ts == SelectSeq(utl.before.tasks, LAMBDA t : t.project = p.name)
         IN IF p.name \in CascadeProjects
            THEN <<[doctype |-> "Project", name |-> p.name]>>
                    \o [k \in DOMAIN ts |-> [doctype |-> "Task", name |-> ts[k].name]]
                    \o CascadeOrder(i + 1)
            ELSE CascadeOrder(i + 1)

\* the records of a table saved before the failing save
SavedBeforeFailure(doctype) ==
    LET order == CascadeOrder(1)
    IN {order[n].name : n \in {m \in DOMAIN order :
                                    m < utl.failAt /\ order[m].doctype = doctype}}

\* C10: when a save of the cascade fails, every Project and Task saved before
\* it keeps the new billable, every later Project and Task is unchanged, and no
\* Timesheet Detail row has been modified.
C10_PartialCascadeOnFailure ==
    utl.state = "raised"
        => /\ utl.ref_dt \in {"Project Type", "Project Template"}
           /\ utl.failAt \in DOMAIN CascadeOrder(1)
           /\ OnlyRowsSet(projects, utl.before.projects,
                          LAMBDA row : row.name \in SavedBeforeFailure("Project"),
                          utl.billable)
           /\ OnlyRowsSet(tasks, utl.before.tasks,
                          LAMBDA row : row.name \in SavedBeforeFailure("Task"),
                          utl.billable)
           /\ timesheet_details = utl.before.timesheet_details

C10_Witness ==
    /\ utl.state = "raised"
    /\ utl.failAt = 3
    /\ Len(CascadeOrder(1)) = 4
    /\ \E p \in DOMAIN projects :
        projects[p].billable = utl.billable /\ utl.before.projects[p].billable # utl.billable
    /\ \E p \in DOMAIN projects :
        projects[p].name \in CascadeProjects /\ projects[p].billable # utl.billable
    /\ \E t \in DOMAIN tasks :
        tasks[t].billable = utl.billable /\ utl.before.tasks[t].billable # utl.billable
    /\ \E d \in DOMAIN timesheet_details :
        /\ timesheet_details[d].project \in CascadeProjects
        /\ timesheet_details[d].billable # utl.billable

(***************************************************************************)
(* Properties of get_linked_documents (SpecLinks)                          *)
(***************************************************************************)
\* the allow-listed direct links of document i
AcceptedLinks(i) == {j \in linked[i] : Documents[j].doctype \in {"Project", "Timesheet", "Task"}}

\* the documents reached from the frontier over chains of allow-listed links
RECURSIVE ReachedFrom(_, _)
ReachedFrom(frontier, seen) ==
    LET next == UNION {AcceptedLinks(i) : i \in frontier} \ seen
    IN IF next = {} THEN seen ELSE ReachedFrom(next, seen \cup next)

\* the documents reachable from i over one or more allow-listed links
Nested(i) == ReachedFrom({i}, {})

AcyclicLinks == \A i \in DOMAIN Documents : i \notin Nested(i)

\* C4: a call that returns reports as count the number of allow-listed
\* direct links of the start document, links to documents already listed
\* included and links to other doctypes excluded; without such links it
\* returns no docs and count 0; the docs returned ascend by link_count.
C4_CountAndOrder ==
    gld.state = "returned"
        => /\ gld.count = Cardinality(AcceptedLinks(gld.start))
           /\ AcceptedLinks(gld.start) = {} => gld.docs = <<>> /\ gld.count = 0
           /\ \A k \in 1..(Len(gld.docs) - 1) :
                gld.docs[k].link_count <= gld.docs[k + 1].link_count

C4_Witness ==
    /\ gld.state = "returned"
    /\ gld.count = 2
    /\ Len(gld.docs) = 2
    /\ gld.docs[1].link_count < gld.docs[2].link_count
    /\ Documents[gld.start].doctype = "Project"
    /\ gld.docs[1].doctype = "Timesheet"
    /\ gld.docs[2].doctype = "Task"

\* C5: on an acyclic link graph the docs returned hold an entry for every
\* Project, Timesheet or Task document reachable from the start document over
\* one or more allow-listed links, and each entry's link_count is the number
\* of allow-listed direct links of its document.
C5_EveryNestedDocumentListed ==
    (gld.state = "returned" /\ AcyclicLinks)
        => /\ \A j \in Nested(gld.start) :
                \E k \in DOMAIN gld.docs :
                    /\ gld.docs[k].doctype = Documents[j].doctype
                    /\ gld.docs[k].name = Documents[j].name
           /\ \A k \in DOMAIN gld.docs :
                \E j \in DOMAIN Documents :
                    /\ gld.docs[k].doctype = Documents[j].doctype
                    /\ gld.docs[k].name = Documents[j].name
                    /\ gld.docs[k].link_count = Cardinality(AcceptedLinks(j))

\* the start document and every document reachable from it over any links
RECURSIVE LinkedFrom(_, _)
LinkedFrom(frontier, seen) ==
    LET next == UNION {linked[i] : i \in frontier} \ seen
    IN IF next = {} THEN seen ELSE LinkedFrom(next, seen \cup next)

\* C9: on a link graph over Project, Timesheet and Task documents with
\* pairwise distinct names, link cycles included, the call terminates: it
\* returns, and the recursion never exceeds what the interpreter allows.
C9_TerminatesOnDistinctNames ==
    (gld.state # "pending"
        /\ LET graph == LinkedFrom({gld.start}, {gld.start})
           IN /\ \A i \in graph : Documents[i].doctype \in {"Project", "Timesheet", "Task"}
              /\ \A i, j \in graph : i # j => Documents[i].name # Documents[j].name)
        => gld.state = "returned"

====
